---- MODULE Spec2Model ----
(***************************************************************************)
(* DocFill: the DOCX text engine (lib/agents/utils/docx-xml.ts) and the    *)
(* workflow that drives it (lib/agents/workflows/template-filler.ts).      *)
(*                                                                         *)
(* A string is a sequence of characters.  Offsets into a string are        *)
(* 0-based, as in the source; a sequence of leaves is indexed from 1, so   *)
(* nodeIndex i of the model is textNodes[i-1] of the source.               *)
(***************************************************************************)
EXTENDS Integers, Sequences, FiniteSets, TLC

VARIABLES
    zip,              \* the package: the content of each named entry
    json,             \* the parsed tree, as the text of its <w:t> leaves in order
    textNodes,        \* TextNodeHandle.text of every handle, in index order
    xmlString,        \* DocxContent.xmlString: the document as it was loaded
    slots,            \* the argument of findAndReplaceSequential
    queue,            \* its work queue
    searchCursor,     \* its forward-only cursor
    replacementCount, \* its change counter
    outcomes,         \* what each loop iteration did, oldest first
    pc,               \* where the run is
    analysis,         \* slotAnalyzerAgent's result: analysis.slots
    fillResult,       \* slotFillerAgent's result: fillResult.filledSlots
    output,           \* what templateFillerWorkflow gave its caller
    references,       \* the relationship ids the tree's attributes refer to
    relValidation,    \* what validateRelationships returned to rebuildDocx
    replacements,     \* findAndReplace: the entries of the Map still to do
    count,            \* findAndReplace: its counter
    globals,          \* process.env.OPENAI_API_KEY, EventEmitter.defaultMaxListeners
    runs,             \* the DocFill instances of the process and their fill() runs
    route,            \* POST /api/template-filler: its handler and its event stream
    ui,               \* useTemplateFiller: the state the page renders
    abortRef,         \* useTemplateFiller: abortRef.current
    calls,            \* useTemplateFiller: the calls of generate
    detection         \* findSimplePlaceholders: its argument and its result

vars == <<zip, json, textNodes, xmlString, slots, queue, searchCursor,
          replacementCount, outcomes, pc, analysis, fillResult, output,
          references, relValidation, replacements, count, globals, runs,
          route, ui, abortRef, calls, detection>>

engineVars == <<slots, queue, searchCursor, replacementCount, outcomes>>
contentVars == <<json, textNodes, xmlString>>
workflowVars == <<analysis, fillResult, output>>
rebuildVars == <<references, relValidation>>
mapVars == <<replacements, count>>
sdkVars == <<globals, runs>>
hookVars == <<ui, abortRef, calls>>
clientVars == <<hookVars, detection>>

\* What the engine's loop and the workflow's steps before the rebuild leave
\* alone.
otherVars == <<rebuildVars, mapVars, sdkVars, clientVars, route>>

----------------------------------------------------------------------------
(* Bounds of the model *)

MaxLeaves == 2      \* text leaves in a document
MaxLeafLen == 2     \* characters in one leaf
MaxSlots == 2       \* requests in one call
MaxOrigLen == 2     \* characters in an originalText
MaxFillLen == 1     \* characters in a filledValue

Alphabet == {"a", "b"}

\* The primary content part of a package.
DocumentPath == "word/document.xml"

\* A package holding document.xml with the given leaves, and one without it.
Package(doc) == [name \in {DocumentPath} |-> doc]

EmptyPackage == [name \in {} |-> <<>>]

\* What the caller of the workflow has before the workflow ends.
NoOutput == [kind |-> "none"]

\* The relationship table of the primary content part, and a part the engine
\* has no business with.
RelsPath == "word/_rels/document.xml.rels"

MediaPath == "word/media/image1.png"

\* The ids a relationship table defines and a document refers to.
RelIds == {"rId1", "rId2"}

\* rebuildDocx has not validated anything yet.
NoValidation == [kind |-> "none"]

\* A value that may be undefined: {} when it is, {v} when it is v.
Undefined == {}

Some(v) == {v}

Optional(S) == {Undefined} \cup {Some(v) : v \in S}

\* The process-wide state once the workflow module has been loaded: no key
\* set by the SDK yet, the listener ceiling raised.
DefaultMaxListeners == 100

ModuleLoaded ==
    [OPENAI_API_KEY |-> Undefined, defaultMaxListeners |-> DefaultMaxListeners]

\* The instances the process may construct.
MaxRuns == 2

Instances == 1..MaxRuns

\* An instance that has not been constructed.
NotConstructed ==
    [pc |-> "new",
     options |-> [apiKey |-> Undefined, model |-> Undefined, onProgress |-> Undefined,
                  maxRetries |-> Undefined, maxOutputTokens |-> Undefined],
     passed |-> [model |-> Undefined, onProgress |-> Undefined,
                 maxRetries |-> Undefined, maxOutputTokens |-> Undefined],
     input |-> [prompt |-> <<>>, model |-> Undefined, onProgress |-> Undefined,
                maxRetries |-> Undefined, maxOutputTokens |-> Undefined],
     fileBuffer |-> <<>>,
     json |-> <<>>,
     textNodes |-> <<>>,
     keysRead |-> {}]

\* The route has accepted no request: its stream does not exist yet.
RouteIdle ==
    [handler |-> "idle",
     stream |-> [state |-> "readable", events |-> <<>>],
     valid |-> TRUE,
     requests |-> <<>>,
     thoughts |-> 0]

MaxCalls == 2

Calls == 1..MaxCalls

\* useTemplateFiller as it is mounted; file and prompt are kept as whether a
\* file is chosen and whether the prompt is not blank.
Mounted ==
    [view |-> "upload", file |-> FALSE, prompt |-> FALSE, result |-> Undefined,
     error |-> Undefined, isLoading |-> FALSE]

\* A call of generate that has not been made.
NotCalled == [pc |-> "idle", aborted |-> FALSE, body |-> <<>>]

HookIdle ==
    /\ ui = Mounted
    /\ abortRef = 0
    /\ calls = [c \in Calls |-> NotCalled]

\* findSimplePlaceholders has not been called.
NoDetection == [content |-> <<>>, called |-> FALSE, slots |-> <<>>]

\* Nothing has been rebuilt, no Map is being replaced, no instance exists, no
\* request has come in and nothing is shown.
OtherIdle ==
    /\ references = {}
    /\ relValidation = NoValidation
    /\ replacements = <<>>
    /\ count = 0
    /\ globals = ModuleLoaded
    /\ runs = [i \in Instances |-> NotConstructed]
    /\ route = RouteIdle
    /\ HookIdle
    /\ detection = NoDetection

Min(S) == CHOOSE x \in S : \A y \in S : x <= y

SeqsUpTo(S, n) == UNION {[1..k -> S] : k \in 0..n}

Strs(n) == SeqsUpTo(Alphabet, n)

----------------------------------------------------------------------------
(* The string primitives of the language, as the engine uses them *)

Clamp(x, lo, hi) == IF x < lo THEN lo ELSE IF x > hi THEN hi ELSE x

\* String.prototype.substring(a, b): both ends clamped to the string, swapped
\* when a > b.
Substring(s, a, b) ==
    LET ca == Clamp(a, 0, Len(s))
        cb == Clamp(b, 0, Len(s))
        lo == IF ca <= cb THEN ca ELSE cb
        hi == IF ca <= cb THEN cb ELSE ca
    IN  SubSeq(s, lo + 1, hi)

\* String.prototype.substring(a): to the end of the string.
SubstringFrom(s, a) == Substring(s, a, Len(s))

\* String.prototype.indexOf(pat, pos): the least offset >= pos where pat
\* occurs, -1 when there is none; the empty pattern occurs at min(pos, length).
IndexOf(text, pat, pos) ==
    LET n == Len(text)
        m == Len(pat)
        from == Clamp(pos, 0, n)
        hits == {i \in from..(n - m) : SubSeq(text, i + 1, i + m) = pat}
    IN  IF m = 0 THEN from
        ELSE IF hits = {} THEN -1
        ELSE Min(hits)

----------------------------------------------------------------------------
(* docx-xml.ts *)

\* A content is the pair of views the engine keeps of the leaves: the tree
\* (parent[key]) and the handles' cached text.
Content(j, t) == [json |-> j, textNodes |-> t]

updateNodeTextDropsTree(content, i, newText) ==
    [content EXCEPT !.textNodes[i] = newText]

updateNodeText(content, i, newText) ==
    [content EXCEPT !.json[i] = newText, !.textNodes[i] = newText]

RECURSIVE buildMapFrom(_, _, _)
buildMapFrom(nodes, idx, cursor) ==
    IF idx > Len(nodes) THEN [virtualText |-> <<>>, nodeMap |-> <<>>]
    ELSE LET len == Len(nodes[idx])
             rest == buildMapFrom(nodes, idx + 1, cursor + len)
         IN  [virtualText |-> nodes[idx] \o rest.virtualText,
              nodeMap |-> <<[start |-> cursor, end |-> cursor + len,
                             nodeIndex |-> idx]>> \o rest.nodeMap]

buildVirtualTextMap(content) == buildMapFrom(content.textNodes, 1, 0)

\* nodeMap.find((m) => matchStart >= m.start && matchStart < m.end): the
\* position of the first such entry, 0 (undefined) when there is none.
findStartEntry(nodeMap, matchStart) ==
    LET found == {i \in DOMAIN nodeMap :
                     matchStart >= nodeMap[i].start /\ matchStart < nodeMap[i].end}
    IN  IF found = {} THEN 0 ELSE Min(found)

\* nodeMap.find((m) => matchEnd > m.start && matchEnd <= m.end), likewise.
findEndEntry(nodeMap, matchEnd) ==
    LET found == {i \in DOMAIN nodeMap :
                     matchEnd > nodeMap[i].start /\ matchEnd <= nodeMap[i].end}
    IN  IF found = {} THEN 0 ELSE Min(found)

RECURSIVE clearMiddle(_, _, _)
clearMiddle(content, i, endIndex) ==
    IF i >= endIndex THEN content
    ELSE clearMiddle(updateNodeText(content, i, <<>>), i + 1, endIndex)

applyReplacementKeepsMiddle(content, nodeMap, matchStart, matchEnd, replacement) ==
    LET startNodeEntry == findStartEntry(nodeMap, matchStart)
        endNodeEntry == findEndEntry(nodeMap, matchEnd)
    IN  IF startNodeEntry = 0 \/ endNodeEntry = 0 THEN content
        ELSE
        LET s == nodeMap[startNodeEntry].nodeIndex
            e == nodeMap[endNodeEntry].nodeIndex
            localStart == matchStart - nodeMap[startNodeEntry].start
            localEnd == matchEnd - nodeMap[endNodeEntry].start
        IN  IF s = e
            THEN updateNodeText(content, s,
                     Substring(content.textNodes[s], 0, localStart)
                     \o replacement
                     \o SubstringFrom(content.textNodes[s], localEnd))
            ELSE LET c1 == updateNodeText(content, s,
                               Substring(content.textNodes[s], 0, localStart)
                               \o replacement)
                 IN  updateNodeText(c1, e, SubstringFrom(c1.textNodes[e], localEnd))

applyReplacement(content, nodeMap, matchStart, matchEnd, replacement) ==
    LET startNodeEntry == findStartEntry(nodeMap, matchStart)
        endNodeEntry == findEndEntry(nodeMap, matchEnd)
    IN  IF startNodeEntry = 0 \/ endNodeEntry = 0 THEN content
        ELSE
        LET s == nodeMap[startNodeEntry].nodeIndex
            e == nodeMap[endNodeEntry].nodeIndex
            localStart == matchStart - nodeMap[startNodeEntry].start
            localEnd == matchEnd - nodeMap[endNodeEntry].start
        IN  IF s = e
            THEN updateNodeText(content, s,
                     Substring(content.textNodes[s], 0, localStart)
                     \o replacement
                     \o SubstringFrom(content.textNodes[s], localEnd))
            ELSE LET c1 == updateNodeText(content, s,
                               Substring(content.textNodes[s], 0, localStart)
                               \o replacement)
                     c2 == updateNodeText(c1, e,
                               SubstringFrom(c1.textNodes[e], localEnd))
                 IN  clearMiddle(c2, s + 1, e)

\* The leaves applyReplacement locates for a span: <<start, end>>, <<0, 0>>
\* when it gives up (the node-map-error return).
affectedNodes(nodeMap, matchStart, matchEnd) ==
    LET startNodeEntry == findStartEntry(nodeMap, matchStart)
        endNodeEntry == findEndEntry(nodeMap, matchEnd)
    IN  IF startNodeEntry = 0 \/ endNodeEntry = 0 THEN <<0, 0>>
        ELSE <<nodeMap[startNodeEntry].nodeIndex, nodeMap[endNodeEntry].nodeIndex>>

----------------------------------------------------------------------------
(* findAndReplaceSequential: one action per branch of one loop iteration *)

current == Head(queue)

VirtualText == buildVirtualTextMap(Content(json, textNodes)).virtualText

NodeMapSkipsEmpty ==
    SelectSeq(buildVirtualTextMap(Content(json, textNodes)).nodeMap,
              LAMBDA m : m.start # m.end)

NodeMapAtCall == buildVirtualTextMap(Content(xmlString, xmlString)).nodeMap

NodeMap == buildVirtualTextMap(Content(json, textNodes)).nodeMap

matchIndex == IndexOf(VirtualText, current.originalText, searchCursor)

Requests == [originalText : Strs(MaxOrigLen), filledValue : Strs(MaxFillLen)]

\* The call: the queue is a copy of the argument, cursor and counter start at 0.
StartSequential(list) ==
    /\ slots' = list
    /\ queue' = list
    /\ searchCursor' = 0
    /\ replacementCount' = 0
    /\ outcomes' = <<>>
    /\ pc' = "loop"

CallSequential ==
    /\ pc = "extracted"
    /\ \E n \in 0..MaxSlots : \E list \in [1..n -> Requests] : StartSequential(list)
    /\ UNCHANGED <<otherVars, zip, contentVars, workflowVars>>

Outcome(branch, at, nodes, modified) ==
    [branch |-> branch, originalText |-> current.originalText,
     filledValue |-> current.filledValue, searchCursor |-> searchCursor,
     matchIndex |-> at, startNode |-> nodes[1], endNode |-> nodes[2],
     modified |-> modified]

NotFoundStepKeepsRequest ==
    /\ pc = "loop"
    /\ queue # <<>>
    /\ matchIndex = -1
    /\ queue' = queue
    /\ outcomes' = Append(outcomes, Outcome("not-found", -1, <<0, 0>>, FALSE))
    /\ UNCHANGED <<otherVars, zip, contentVars, workflowVars, slots, searchCursor,
                   replacementCount, pc>>

NotFoundStep ==
    /\ pc = "loop"
    /\ queue # <<>>
    /\ matchIndex = -1
    /\ queue' = Tail(queue)
    /\ outcomes' = Append(outcomes, Outcome("not-found", -1, <<0, 0>>, FALSE))
    /\ UNCHANGED <<otherVars, zip, contentVars, workflowVars, slots, searchCursor,
                   replacementCount, pc>>

CursorAfterReplaceByFilled(at, originalText, filledValue) == at + Len(filledValue)

CursorAfterReplace(at, originalText, filledValue) == at + Len(originalText)

matchEnd == matchIndex + Len(current.originalText)

\* The content after applyReplacement has run for the head request.
replaced ==
    applyReplacement(Content(json, textNodes), NodeMap, matchIndex, matchEnd,
                     current.filledValue)

ReplaceStep ==
    /\ pc = "loop"
    /\ queue # <<>>
    /\ matchIndex # -1
    /\ current.originalText # current.filledValue
    /\ json' = replaced.json
    /\ textNodes' = replaced.textNodes
    /\ replacementCount' = replacementCount + 1
    /\ searchCursor' = CursorAfterReplace(matchIndex, current.originalText,
                                          current.filledValue)
    /\ queue' = Tail(queue)
    /\ outcomes' = Append(outcomes,
           Outcome("replaced", matchIndex,
                   affectedNodes(NodeMap, matchIndex, matchEnd),
                   replaced.textNodes # textNodes))
    /\ UNCHANGED <<otherVars, zip, xmlString, workflowVars, slots, pc>>

NoOpStepKeepsCursor ==
    /\ pc = "loop"
    /\ queue # <<>>
    /\ matchIndex # -1
    /\ current.originalText = current.filledValue
    /\ searchCursor' = searchCursor
    /\ queue' = Tail(queue)
    /\ outcomes' = Append(outcomes, Outcome("no-op", matchIndex, <<0, 0>>, FALSE))
    /\ UNCHANGED <<otherVars, zip, contentVars, workflowVars, slots, replacementCount, pc>>

NoOpStep ==
    /\ pc = "loop"
    /\ queue # <<>>
    /\ matchIndex # -1
    /\ current.originalText = current.filledValue
    /\ searchCursor' = matchEnd
    /\ queue' = Tail(queue)
    /\ outcomes' = Append(outcomes, Outcome("no-op", matchIndex, <<0, 0>>, FALSE))
    /\ UNCHANGED <<otherVars, zip, contentVars, workflowVars, slots, replacementCount, pc>>

\* The loop has ended: the function returns replacementCount.
ReturnSequential ==
    /\ pc = "loop"
    /\ queue = <<>>
    /\ pc' = "returned"
    /\ UNCHANGED <<otherVars, zip, contentVars, workflowVars, engineVars>>

----------------------------------------------------------------------------
(* The engine called on a document that extractDocxContent has loaded *)

\* The documents of n text leaves.
Documents(n) == [1..n -> Strs(MaxLeafLen)]

Loaded(doc) ==
    /\ zip = Package(doc)
    /\ json = doc
    /\ textNodes = doc
    /\ xmlString = doc

Init ==
    /\ \E n \in 0..MaxLeaves : \E doc \in Documents(n) : Loaded(doc)
    /\ slots = <<>>
    /\ queue = <<>>
    /\ searchCursor = 0
    /\ replacementCount = 0
    /\ outcomes = <<>>
    /\ pc = "extracted"
    /\ analysis = <<>>
    /\ fillResult = <<>>
    /\ output = NoOutput
    /\ OtherIdle

Next ==
    \/ CallSequential
    \/ NotFoundStep
    \/ ReplaceStep
    \/ NoOpStep
    \/ ReturnSequential

Spec == Init /\ [][Next]_vars

----------------------------------------------------------------------------
(* The engine called with one request on a document of up to SplitLeaves   *)
(* leaves: placeholders whose text is fragmented across runs               *)

SplitLeaves == 3    \* text leaves in a document
SplitOrigLen == 3   \* characters in the originalText

SplitRequests == [originalText : Strs(SplitOrigLen), filledValue : Strs(MaxFillLen)]

CallSingle ==
    /\ pc = "extracted"
    /\ \E r \in SplitRequests : StartSequential(<<r>>)
    /\ UNCHANGED <<otherVars, zip, contentVars, workflowVars>>

InitSplit ==
    /\ \E n \in 0..SplitLeaves : \E doc \in Documents(n) : Loaded(doc)
    /\ slots = <<>>
    /\ queue = <<>>
    /\ searchCursor = 0
    /\ replacementCount = 0
    /\ outcomes = <<>>
    /\ pc = "extracted"
    /\ analysis = <<>>
    /\ fillResult = <<>>
    /\ output = NoOutput
    /\ OtherIdle

NextSplit ==
    \/ CallSingle
    \/ NotFoundStep
    \/ ReplaceStep
    \/ NoOpStep
    \/ ReturnSequential

SpecSplit == InitSplit /\ [][NextSplit]_vars

----------------------------------------------------------------------------
(* templateFillerWorkflow: extract, analyse, fill, apply, rebuild *)

WfLeaves == 1       \* text leaves in a document given to the workflow
WfOrigLen == 1      \* characters in a detected originalText

\* FilledSlot.source; the workflow only tells "skipped" from the rest.
Sources == {"generated", "skipped"}

MissingDocument == "Invalid DOCX file (word/document.xml missing)"

InitWorkflow ==
    /\ \/ \E n \in 0..WfLeaves : \E doc \in Documents(n) : zip = Package(doc)
       \/ zip = EmptyPackage
    /\ json = <<>>
    /\ textNodes = <<>>
    /\ xmlString = <<>>
    /\ slots = <<>>
    /\ queue = <<>>
    /\ searchCursor = 0
    /\ replacementCount = 0
    /\ outcomes = <<>>
    /\ pc = "start"
    /\ analysis = <<>>
    /\ fillResult = <<>>
    /\ output = NoOutput
    /\ OtherIdle

\* extractDocxContent, word/document.xml present: the tree, the handles and
\* the original XML string are built from it.
ExtractOk ==
    /\ pc = "start"
    /\ DocumentPath \in DOMAIN zip
    /\ json' = zip[DocumentPath]
    /\ textNodes' = zip[DocumentPath]
    /\ xmlString' = zip[DocumentPath]
    /\ pc' = "extracted"
    /\ UNCHANGED <<otherVars, zip, engineVars, workflowVars>>

ExtractMissingReturnsInput ==
    /\ pc = "start"
    /\ DocumentPath \notin DOMAIN zip
    /\ pc' = "done"
    /\ output' = [kind |-> "result", filledDocxBuffer |-> zip,
                  metadata |-> [totalSlots |-> 0, filledSlots |-> 0,
                                skippedSlots |-> 0]]
    /\ UNCHANGED <<otherVars, zip, contentVars, engineVars, analysis, fillResult>>

\* extractDocxContent, word/document.xml missing: it throws, and the
\* workflow's catch logs and rethrows.
ExtractMissing ==
    /\ pc = "start"
    /\ DocumentPath \notin DOMAIN zip
    /\ pc' = "failed"
    /\ output' = [kind |-> "error", message |-> MissingDocument]
    /\ UNCHANGED <<otherVars, zip, contentVars, engineVars, analysis, fillResult>>

\* slotAnalyzerAgent: the detected slots.  The ids are the language model's
\* (z.string()), so nothing keeps two slots from carrying the same one.
AnalyzedSlots(n) == [1..n -> [id : 1..n, originalText : Strs(WfOrigLen)]]

AnalyzeStep ==
    /\ pc = "extracted"
    /\ \E n \in 0..MaxSlots : \E list \in AnalyzedSlots(n) : analysis' = list
    /\ pc' = "analyzed"
    /\ UNCHANGED <<otherVars, zip, contentVars, engineVars, fillResult, output>>

Metadata(total, filled) ==
    [totalSlots |-> total,
     filledSlots |-> Cardinality({i \in DOMAIN filled : filled[i].source # "skipped"}),
     skippedSlots |-> Cardinality({i \in DOMAIN filled : filled[i].source = "skipped"})]

\* No slot detected: the input bytes are returned as they came.
NoSlotsStep ==
    /\ pc = "analyzed"
    /\ Len(analysis) = 0
    /\ pc' = "done"
    /\ output' = [kind |-> "result", filledDocxBuffer |-> zip,
                  metadata |-> [totalSlots |-> 0, filledSlots |-> 0,
                                skippedSlots |-> 0]]
    /\ UNCHANGED <<otherVars, zip, contentVars, engineVars, analysis, fillResult>>

\* input.slots.find((s) => s.id === id)?.originalText || ""
originalTextOf(list, id) ==
    LET found == {i \in DOMAIN list : list[i].id = id}
    IN  IF found = {} THEN <<>> ELSE list[Min(found)].originalText

\* A confidence, in tenths: 0.5 is 5, 1 is 10.
Tenths == {0, 10}

HalfTenths == 5

\* slot.confidence || 0.5
OrHalf(confidence) == IF confidence # 0 THEN confidence ELSE HalfTenths

\* What the model passes to finalizeSlots: ids it may have made up included.
ToolSlots ==
    [id : 1..(MaxSlots + 1), value : Strs(MaxFillLen), source : Sources,
     confidence : Tenths]

\* slotFillerAgent, finalizeSlots called: one FilledSlot per entry of the call.
FillFinalizedStep ==
    /\ pc = "analyzed"
    /\ Len(analysis) > 0
    /\ \E n \in 0..MaxSlots : \E tool \in [1..n -> ToolSlots] :
           fillResult' = [i \in DOMAIN tool |->
                             [id |-> tool[i].id,
                              originalText |-> originalTextOf(analysis, tool[i].id),
                              filledValue |-> tool[i].value,
                              source |-> tool[i].source,
                              confidence |-> OrHalf(tool[i].confidence)]]
    /\ pc' = "filled"
    /\ UNCHANGED <<otherVars, zip, contentVars, engineVars, analysis, output>>

FillSkippedStepBlanks ==
    /\ pc = "analyzed"
    /\ Len(analysis) > 0
    /\ fillResult' = [i \in DOMAIN analysis |->
                         [id |-> analysis[i].id,
                          originalText |-> analysis[i].originalText,
                          filledValue |-> <<>>,
                          source |-> "skipped",
                          confidence |-> 0]]
    /\ pc' = "filled"
    /\ UNCHANGED <<otherVars, zip, contentVars, engineVars, analysis, output>>

\* slotFillerAgent, finalizeSlots never called or generation failed: every
\* input slot comes back skipped, its value its own original text.
FillSkippedStep ==
    /\ pc = "analyzed"
    /\ Len(analysis) > 0
    /\ fillResult' = [i \in DOMAIN analysis |->
                         [id |-> analysis[i].id,
                          originalText |-> analysis[i].originalText,
                          filledValue |-> analysis[i].originalText,
                          source |-> "skipped",
                          confidence |-> 0]]
    /\ pc' = "filled"
    /\ UNCHANGED <<otherVars, zip, contentVars, engineVars, analysis, output>>

\* new Map(filledSlots.map((s) => [s.id, s])).get(id): the last entry with
\* that id, 0 (undefined) when there is none.
filledMapGet(filled, id) ==
    LET found == {i \in DOMAIN filled : filled[i].id = id}
    IN  IF found = {} THEN 0 ELSE CHOOSE i \in found : \A j \in found : j <= i

orderedReplacementsInFillerOrder ==
    [k \in DOMAIN fillResult |->
        [originalText |-> fillResult[k].originalText,
         filledValue |-> fillResult[k].filledValue]]

orderedReplacements ==
    [i \in DOMAIN analysis |->
        LET k == filledMapGet(fillResult, analysis[i].id)
        IN  IF k = 0
            THEN [originalText |-> analysis[i].originalText,
                  filledValue |-> analysis[i].originalText]
            ELSE [originalText |-> fillResult[k].originalText,
                  filledValue |-> fillResult[k].filledValue]]

\* Step 4: findAndReplaceSequential(docxContent, orderedReplacements).
ApplyStep ==
    /\ pc = "filled"
    /\ StartSequential(orderedReplacements)
    /\ UNCHANGED <<otherVars, zip, contentVars, workflowVars>>

\* validateRelationships: the table is missing, cannot be parsed, or is
\* compared with the ids the markup refers to.  The errors are one per
\* orphaned id.
validateRelationships(package, referencedRels) ==
    IF RelsPath \notin DOMAIN package
    THEN [isValid |-> TRUE, errors |-> {},
          warnings |-> {"No relationships file found"}]
    ELSE IF ~package[RelsPath].parses
    THEN [isValid |-> FALSE,
          errors |-> {[kind |-> "Relationship validation failed", relId |-> ""]},
          warnings |-> {}]
    ELSE LET definedRels == package[RelsPath].ids
             orphaned == {relId \in referencedRels : relId \notin definedRels}
         IN  [isValid |-> orphaned = {},
              errors |-> {[kind |-> "Orphaned relationship reference", relId |-> relId] :
                             relId \in orphaned},
              warnings |-> {}]

RebuildStepThrowsOnInvalid ==
    /\ pc = "returned"
    /\ zip' = [zip EXCEPT ![DocumentPath] = json]
    /\ relValidation' = validateRelationships(zip', references)
    /\ pc' = IF relValidation'.isValid THEN "rebuilt" ELSE "failed"
    /\ UNCHANGED <<mapVars, sdkVars, clientVars, route, references, contentVars, engineVars, workflowVars>>

RebuildStepRewritesRels ==
    /\ pc = "returned"
    /\ zip' = [name \in DOMAIN zip |->
                  IF name = DocumentPath THEN json
                  ELSE IF name = RelsPath THEN [parses |-> TRUE, ids |-> references]
                  ELSE zip[name]]
    /\ relValidation' = validateRelationships(zip', references)
    /\ pc' = "rebuilt"
    /\ UNCHANGED <<mapVars, sdkVars, clientVars, route, references, contentVars, engineVars, workflowVars>>

\* rebuildDocx: the serialized tree replaces word/document.xml in the package,
\* preserveRelationships only reads, the outcome of validateRelationships is
\* logged, and the package is generated.
RebuildStep ==
    /\ pc = "returned"
    /\ zip' = [zip EXCEPT ![DocumentPath] = json]
    /\ relValidation' = validateRelationships(zip', references)
    /\ pc' = "rebuilt"
    /\ UNCHANGED <<mapVars, sdkVars, clientVars, route, references, contentVars, engineVars, workflowVars>>

\* The result: the rebuilt bytes and the metadata counted from the filler's
\* results.
CompleteStep ==
    /\ pc = "rebuilt"
    /\ output' = [kind |-> "result", filledDocxBuffer |-> zip,
                  metadata |-> Metadata(Len(analysis), fillResult)]
    /\ pc' = "done"
    /\ UNCHANGED <<otherVars, zip, contentVars, engineVars, analysis, fillResult>>

NextWorkflow ==
    \/ ExtractOk
    \/ ExtractMissing
    \/ AnalyzeStep
    \/ NoSlotsStep
    \/ FillFinalizedStep
    \/ FillSkippedStep
    \/ ApplyStep
    \/ NotFoundStep
    \/ ReplaceStep
    \/ NoOpStep
    \/ ReturnSequential
    \/ RebuildStep
    \/ CompleteStep

SpecWorkflow == InitWorkflow /\ [][NextWorkflow]_vars

----------------------------------------------------------------------------
(* Extract, one replacement request, rebuild: on packages that carry a     *)
(* relationship table and a media part besides the primary content part    *)

RbLeaves == 1       \* text leaves in the document of such a package

\* What word/_rels/document.xml.rels may hold: XML that does not parse, or a
\* table defining some ids.
RelsContents ==
    {[parses |-> FALSE, ids |-> {}]} \cup [parses : {TRUE}, ids : SUBSET RelIds]

MediaContents == {<<"a">>, <<"b">>}

\* The parts of a package other than word/document.xml.
OtherParts ==
    {[name \in {} |-> <<>>]}
    \cup {RelsPath :> rels : rels \in RelsContents}
    \cup {MediaPath :> media : media \in MediaContents}
    \cup {(RelsPath :> rels) @@ (MediaPath :> media) :
              rels \in RelsContents, media \in MediaContents}

InitRebuild ==
    /\ \E n \in 0..RbLeaves : \E doc \in Documents(n) : \E parts \in OtherParts :
           zip = Package(doc) @@ parts
    /\ json = <<>>
    /\ textNodes = <<>>
    /\ xmlString = <<>>
    /\ slots = <<>>
    /\ queue = <<>>
    /\ searchCursor = 0
    /\ replacementCount = 0
    /\ outcomes = <<>>
    /\ pc = "start"
    /\ analysis = <<>>
    /\ fillResult = <<>>
    /\ output = NoOutput
    /\ references \in SUBSET RelIds
    /\ relValidation = NoValidation
    /\ replacements = <<>>
    /\ count = 0
    /\ globals = ModuleLoaded
    /\ runs = [i \in Instances |-> NotConstructed]
    /\ route = RouteIdle
    /\ HookIdle
    /\ detection = NoDetection

NextRebuild ==
    \/ ExtractOk
    \/ CallSingle
    \/ NotFoundStep
    \/ ReplaceStep
    \/ NoOpStep
    \/ ReturnSequential
    \/ RebuildStep

SpecRebuild == InitRebuild /\ [][NextRebuild]_vars

----------------------------------------------------------------------------
(* The SDK: new DocFill(options) and DocFill.fill(input), see              *)
(* sdk/typescript/src/index.ts.  A fill() run is followed from one         *)
(* suspension point of templateFillerWorkflow to the next.                 *)

MaxOption == 1      \* the largest maxRetries / maxOutputTokens given
RunLeafLen == 1     \* characters in the one leaf of a run's document

ApiKeys == {"k1", "k2"}

ModelNames == {"", "m"}

Callbacks == {"cb1", "cb2"}

Prompts == {<<>>, <<"a">>}

DocFillOptions ==
    [apiKey : Optional(ApiKeys), model : Optional(ModelNames),
     onProgress : Optional(Callbacks), maxRetries : Optional(0..MaxOption),
     maxOutputTokens : Optional(0..MaxOption)]

\* Options that only give, or do not give, an API key.
KeyOptions ==
    {o \in DocFillOptions :
        /\ o.model = Undefined /\ o.onProgress = Undefined
        /\ o.maxRetries = Undefined /\ o.maxOutputTokens = Undefined}

FillInputs ==
    [prompt : Prompts, model : Optional(ModelNames),
     onProgress : Optional(Callbacks), maxRetries : Optional(0..MaxOption),
     maxOutputTokens : Optional(0..MaxOption)]

\* Inputs that give a prompt and nothing else.
PlainInputs ==
    {input \in FillInputs :
        /\ input.prompt # <<>>
        /\ input.model = Undefined /\ input.onProgress = Undefined
        /\ input.maxRetries = Undefined /\ input.maxOutputTokens = Undefined}

RunDocuments == [1..1 -> Strs(RunLeafLen)]

RunRequests == [originalText : Strs(RunLeafLen), filledValue : Strs(MaxFillLen)]

\* a || b for a number, a string and a function: 0 and "" are falsy, a
\* function never is.
OrNumber(a, b) == IF a # Undefined /\ a # Some(0) THEN a ELSE b

OrString(a, b) == IF a # Undefined /\ a # Some("") THEN a ELSE b

OrFunction(a, b) == IF a # Undefined THEN a ELSE b

\* new DocFill(options): the options are kept, and a given key is written to
\* the environment of the process.
Construct(i, options) ==
    /\ runs[i].pc = "new"
    /\ runs' = [runs EXCEPT ![i].pc = "constructed", ![i].options = options]
    /\ globals' = IF options.apiKey # Undefined
                  THEN [globals EXCEPT !.OPENAI_API_KEY = options.apiKey]
                  ELSE globals
    /\ UNCHANGED <<zip, contentVars, engineVars, pc, workflowVars, rebuildVars, mapVars,
                   clientVars>>

\* fill(input) with a Buffer: a blank prompt throws; otherwise
\* templateFillerWorkflow is called with the merged settings and runs up to
\* its first await, the loading of the package.
Fill(i, input, buffer) ==
    /\ runs[i].pc = "constructed"
    /\ runs' =
          IF input.prompt = <<>>
          THEN [runs EXCEPT ![i].pc = "failed", ![i].input = input]
          ELSE [runs EXCEPT
                   ![i].pc = "extracting",
                   ![i].input = input,
                   ![i].fileBuffer = buffer,
                   ![i].passed =
                       [onProgress |-> OrFunction(input.onProgress,
                                                  runs[i].options.onProgress),
                        model |-> OrString(input.model, runs[i].options.model),
                        maxRetries |-> OrNumber(input.maxRetries,
                                                runs[i].options.maxRetries),
                        maxOutputTokens |-> OrNumber(input.maxOutputTokens,
                                                     runs[i].options.maxOutputTokens)]]
    /\ UNCHANGED <<zip, contentVars, engineVars, pc, workflowVars, rebuildVars, mapVars,
                   clientVars,
                   globals>>

ConstructAny ==
    /\ \E options \in DocFillOptions : Construct(1, options)
    /\ UNCHANGED route

FillAny ==
    /\ \E input \in FillInputs : \E buffer \in RunDocuments : Fill(1, input, buffer)
    /\ UNCHANGED route

InitSdk ==
    /\ zip = EmptyPackage
    /\ json = <<>>
    /\ textNodes = <<>>
    /\ xmlString = <<>>
    /\ slots = <<>>
    /\ queue = <<>>
    /\ searchCursor = 0
    /\ replacementCount = 0
    /\ outcomes = <<>>
    /\ pc = "sdk"
    /\ analysis = <<>>
    /\ fillResult = <<>>
    /\ output = NoOutput
    /\ OtherIdle

NextFill ==
    \/ ConstructAny
    \/ FillAny

SpecFill == InitSdk /\ [][NextFill]_vars

\* findAndReplaceSequential as one synchronous call: the content and the
\* count it ends with.
RECURSIVE findAndReplaceSequential(_, _, _, _)
findAndReplaceSequential(content, requests, cursor, changes) ==
    IF requests = <<>> THEN [content |-> content, replacementCount |-> changes]
    ELSE LET built == buildVirtualTextMap(content)
             originalText == Head(requests).originalText
             filledValue == Head(requests).filledValue
             at == IndexOf(built.virtualText, originalText, cursor)
         IN  IF at = -1
             THEN findAndReplaceSequential(content, Tail(requests), cursor, changes)
             ELSE IF originalText # filledValue
             THEN findAndReplaceSequential(
                      applyReplacement(content, built.nodeMap, at,
                                       at + Len(originalText), filledValue),
                      Tail(requests),
                      CursorAfterReplace(at, originalText, filledValue),
                      changes + 1)
             ELSE findAndReplaceSequential(content, Tail(requests),
                                           at + Len(originalText), changes)

\* The package is loaded: the run builds its own tree and handles, and calls
\* slotAnalyzerAgent, whose request is made with the key the environment
\* holds then.
ExtractRun(i) ==
    /\ runs[i].pc = "extracting"
    /\ runs' = [runs EXCEPT
                   ![i].pc = "analyzing",
                   ![i].json = runs[i].fileBuffer,
                   ![i].textNodes = runs[i].fileBuffer,
                   ![i].keysRead = runs[i].keysRead \cup {globals.OPENAI_API_KEY}]
    /\ UNCHANGED <<zip, contentVars, engineVars, pc, workflowVars, rebuildVars, mapVars,
                   clientVars,
                   globals>>

\* The analysis has come back: slotFillerAgent is called, its request too made
\* with the key the environment holds then.
AnalyzeRun(i) ==
    /\ runs[i].pc = "analyzing"
    /\ runs' = [runs EXCEPT
                   ![i].pc = "filling",
                   ![i].keysRead = runs[i].keysRead \cup {globals.OPENAI_API_KEY}]
    /\ UNCHANGED <<zip, contentVars, engineVars, pc, workflowVars, rebuildVars, mapVars,
                   clientVars,
                   globals>>

\* FillRun, were the loop to stop after one request once the client is gone.
FillRunUntilCancelled(i, requests) ==
    /\ runs[i].pc = "filling"
    /\ LET applied == IF route.stream.state = "cancelled" /\ requests # <<>>
                      THEN <<Head(requests)>> ELSE requests
           done == findAndReplaceSequential(
                       Content(runs[i].json, runs[i].textNodes), applied, 0, 0)
       IN  runs' = [runs EXCEPT
                       ![i].pc = "rebuilding",
                       ![i].json = done.content.json,
                       ![i].textNodes = done.content.textNodes]
    /\ UNCHANGED <<zip, contentVars, engineVars, pc, workflowVars, rebuildVars, mapVars,
                   clientVars,
                   globals>>

\* The fill result has come back: the requests are applied to the run's own
\* handles in one synchronous call, and rebuildDocx is called.
FillRun(i, requests) ==
    /\ runs[i].pc = "filling"
    /\ LET done == findAndReplaceSequential(
                       Content(runs[i].json, runs[i].textNodes), requests, 0, 0)
       IN  runs' = [runs EXCEPT
                       ![i].pc = "rebuilding",
                       ![i].json = done.content.json,
                       ![i].textNodes = done.content.textNodes]
    /\ UNCHANGED <<zip, contentVars, engineVars, pc, workflowVars, rebuildVars, mapVars,
                   clientVars,
                   globals>>

\* The package has been generated: fill() resolves.
RebuildRun(i) ==
    /\ runs[i].pc = "rebuilding"
    /\ runs' = [runs EXCEPT ![i].pc = "done"]
    /\ UNCHANGED <<zip, contentVars, engineVars, pc, workflowVars, rebuildVars, mapVars,
                   clientVars,
                   globals>>

ConstructKeyed ==
    /\ \E i \in Instances : \E options \in KeyOptions : Construct(i, options)
    /\ UNCHANGED route

FillPlain ==
    /\ \E i \in Instances : \E input \in PlainInputs : \E buffer \in RunDocuments :
           Fill(i, input, buffer)
    /\ UNCHANGED route

ExtractAny ==
    /\ \E i \in Instances : ExtractRun(i)
    /\ UNCHANGED route

AnalyzeAny ==
    /\ \E i \in Instances : AnalyzeRun(i)
    /\ UNCHANGED route

FillRunAny ==
    /\ \E i \in Instances : \E n \in 0..1 : \E requests \in [1..n -> RunRequests] :
           FillRun(i, requests)
    /\ UNCHANGED route

RebuildAny ==
    /\ \E i \in Instances : RebuildRun(i)
    /\ UNCHANGED route

NextConcurrent ==
    \/ ConstructKeyed
    \/ FillPlain
    \/ ExtractAny
    \/ AnalyzeAny
    \/ FillRunAny
    \/ RebuildAny

SpecConcurrent == InitSdk /\ [][NextConcurrent]_vars

----------------------------------------------------------------------------
(* applyTextEdits and findAndReplace, the engine's other two mutators *)

MaxEdits == 2       \* edits in one applyTextEdits call
MaxCount == 3       \* replacements findAndReplace is followed for

\* A TextEdit; nodeIndex may name a leaf the document does not have.
TextEdits ==
    [nodeIndex : 1..(MaxLeaves + 1), originalText : Strs(MaxFillLen),
     newText : Strs(MaxFillLen)]

\* applyTextEdits: an edit of a missing node is skipped, a text mismatch only
\* warns, and the tree and the handle are both set to newText.
RECURSIVE applyTextEdits(_, _)
applyTextEdits(content, edits) ==
    IF edits = <<>> THEN content
    ELSE LET edit == Head(edits)
         IN  IF edit.nodeIndex \notin DOMAIN content.textNodes
             THEN applyTextEdits(content, Tail(edits))
             ELSE applyTextEdits(
                      [content EXCEPT !.json[edit.nodeIndex] = edit.newText,
                                      !.textNodes[edit.nodeIndex] = edit.newText],
                      Tail(edits))

CallApplyTextEdits ==
    /\ pc = "extracted"
    /\ \E n \in 0..MaxEdits : \E edits \in [1..n -> TextEdits] :
           LET edited == applyTextEdits(Content(json, textNodes), edits)
           IN  /\ json' = edited.json
               /\ textNodes' = edited.textNodes
    /\ pc' = "edited"
    /\ UNCHANGED <<otherVars, zip, xmlString, engineVars, workflowVars>>

\* The entries of a replacements Map, in insertion order: no key twice.
MapEntries == [find : Strs(MaxOrigLen), replace : Strs(MaxFillLen)]

ReplacementMaps(n) ==
    {list \in [1..n -> MapEntries] :
        \A i, j \in 1..n : list[i].find = list[j].find => i = j}

CallFindAndReplace ==
    /\ pc = "extracted"
    /\ \E n \in 0..MaxSlots : \E list \in ReplacementMaps(n) : replacements' = list
    /\ count' = 0
    /\ pc' = "map-loop"
    /\ UNCHANGED <<rebuildVars, sdkVars, clientVars, route, zip, contentVars, engineVars,
                   workflowVars>>

find == Head(replacements).find

replace == Head(replacements).replace

\* virtualFullText.indexOf(find)
mapMatchIndex == IndexOf(VirtualText, find, 0)

\* if (!find) continue;
MapSkipStep ==
    /\ pc = "map-loop"
    /\ replacements # <<>>
    /\ find = <<>>
    /\ replacements' = Tail(replacements)
    /\ UNCHANGED <<rebuildVars, sdkVars, clientVars, route, zip, contentVars, engineVars,
                   workflowVars,
                   count, pc>>

\* No occurrence is left: the while loop breaks, the next entry is taken.
MapBreakStep ==
    /\ pc = "map-loop"
    /\ replacements # <<>>
    /\ find # <<>>
    /\ mapMatchIndex = -1
    /\ replacements' = Tail(replacements)
    /\ UNCHANGED <<rebuildVars, sdkVars, clientVars, route, zip, contentVars, engineVars,
                   workflowVars,
                   count, pc>>

\* One iteration of the while loop that finds an occurrence: it is counted,
\* and replaced in the leaves that hold it; the entry stays the current one
\* unless those leaves are not found in the map.
MapReplaceStep ==
    /\ pc = "map-loop"
    /\ replacements # <<>>
    /\ find # <<>>
    /\ mapMatchIndex # -1
    /\ count < MaxCount
    /\ count' = count + 1
    /\ LET mapMatchEnd == mapMatchIndex + Len(find)
           edited == applyReplacement(Content(json, textNodes), NodeMap,
                                      mapMatchIndex, mapMatchEnd, replace)
       IN  /\ json' = edited.json
           /\ textNodes' = edited.textNodes
           /\ replacements' =
                  IF affectedNodes(NodeMap, mapMatchIndex, mapMatchEnd) = <<0, 0>>
                  THEN Tail(replacements)
                  ELSE replacements
    /\ UNCHANGED <<rebuildVars, sdkVars, clientVars, route, zip, xmlString, engineVars,
                   workflowVars, pc>>

\* Every entry has been taken: the function returns count.
ReturnMap ==
    /\ pc = "map-loop"
    /\ replacements = <<>>
    /\ pc' = "map-returned"
    /\ UNCHANGED <<otherVars, zip, contentVars, engineVars, workflowVars>>

NextEdits ==
    \/ CallSingle
    \/ NotFoundStep
    \/ ReplaceStep
    \/ NoOpStep
    \/ ReturnSequential
    \/ CallApplyTextEdits
    \/ CallFindAndReplace
    \/ MapSkipStep
    \/ MapBreakStep
    \/ MapReplaceStep
    \/ ReturnMap

SpecEdits == Init /\ [][NextEdits]_vars

----------------------------------------------------------------------------
(* getPlainText: the text the workflow gives to the detection step, and the *)
(* engine called with a request copied from it                              *)

PlainLeaves == 2    \* text leaves in a document
PlainLeafLen == 2   \* characters in one leaf

\* The characters \s matches, of which the documents here use two.
WhiteSpace == {" ", "\t"}

PlainAlphabet == {"a"} \cup WhiteSpace

PlainDocuments(n) == [1..n -> SeqsUpTo(PlainAlphabet, PlainLeafLen)]

\* Array.prototype.join(sep)
RECURSIVE Join(_, _)
Join(texts, sep) ==
    IF texts = <<>> THEN <<>>
    ELSE IF Len(texts) = 1 THEN Head(texts)
    ELSE Head(texts) \o sep \o Join(Tail(texts), sep)

RECURSIVE SkipWhiteSpace(_)
SkipWhiteSpace(s) ==
    IF s # <<>> /\ Head(s) \in WhiteSpace THEN SkipWhiteSpace(Tail(s)) ELSE s

\* s.replace(/\s+/g, " ")
RECURSIVE CollapseWhiteSpace(_)
CollapseWhiteSpace(s) ==
    IF s = <<>> THEN <<>>
    ELSE IF Head(s) \in WhiteSpace
         THEN <<" ">> \o CollapseWhiteSpace(SkipWhiteSpace(s))
         ELSE <<Head(s)>> \o CollapseWhiteSpace(Tail(s))

RECURSIVE TrimEnd(_)
TrimEnd(s) ==
    IF s # <<>> /\ s[Len(s)] \in WhiteSpace THEN TrimEnd(SubSeq(s, 1, Len(s) - 1)) ELSE s

\* String.prototype.trim()
Trim(s) == TrimEnd(SkipWhiteSpace(s))

getPlainText(content) == Trim(CollapseWhiteSpace(Join(content.textNodes, <<" ">>)))

\* const plainText = getPlainText(docxContent), the analyzer's documentContent
plainText == getPlainText(Content(json, textNodes))

Substrings(s) == {SubSeq(s, i, j) : i \in 1..(Len(s) + 1), j \in 0..Len(s)}

\* The detection step names a placeholder by text copied from plainText, and
\* the engine is called with the request for it.
CallCopied ==
    /\ pc = "extracted"
    /\ \E originalText \in Substrings(plainText) \ {<<>>} :
       \E filledValue \in Strs(MaxFillLen) :
           StartSequential(<<[originalText |-> originalText,
                              filledValue |-> filledValue]>>)
    /\ UNCHANGED <<otherVars, zip, contentVars, workflowVars>>

InitPlain ==
    /\ \E n \in 0..PlainLeaves : \E doc \in PlainDocuments(n) : Loaded(doc)
    /\ slots = <<>>
    /\ queue = <<>>
    /\ searchCursor = 0
    /\ replacementCount = 0
    /\ outcomes = <<>>
    /\ pc = "extracted"
    /\ analysis = <<>>
    /\ fillResult = <<>>
    /\ output = NoOutput
    /\ OtherIdle

NextPlain ==
    \/ CallCopied
    \/ NotFoundStep
    \/ ReplaceStep
    \/ NoOpStep
    \/ ReturnSequential

SpecPlain == InitPlain /\ [][NextPlain]_vars

----------------------------------------------------------------------------
(* useTemplateFiller (lib/hooks/useTemplateFiller.ts) as app/page.tsx uses  *)
(* it.  A call of generate is followed from one await to the next; what a   *)
(* promise settles with after abort() is run before the next user event.    *)

MaxProgress == 1    \* progress events in one response

ServerMessage == "workflow failed"

HttpMessage == "Server error"

NetworkMessage == "Failed to fetch"

FinalResult == "finalResult"

\* The events of a response body: start, progress, one terminal event.
Bodies ==
    {<<"start">> \o progress \o <<terminal>> :
        progress \in [1..MaxProgress -> {"phase"}] \cup {<<>>},
        terminal \in {"complete", "error"}}

\* fetch resolves with a response that is not ok, or with an event stream.
Responses == {[ok |-> FALSE, body |-> <<>>]} \cup [ok : {TRUE}, body : Bodies]

InFlight(c) == calls[c].pc \in {"fetching", "json", "reading"}

\* A promise has been rejected by abort() and its reaction has not run yet.
AbortPending == \E c \in Calls : InFlight(c) /\ calls[c].aborted

\* What the hook leaves alone.
notHookVars ==
    <<zip, contentVars, engineVars, pc, workflowVars, rebuildVars, mapVars, sdkVars,
      route, detection>>

\* setFile / setPrompt, from the upload view while nothing is loading.
SetFile ==
    /\ ui.view = "upload"
    /\ ~ui.isLoading
    /\ ~AbortPending
    /\ \E f \in BOOLEAN : ui' = [ui EXCEPT !.file = f]
    /\ UNCHANGED <<abortRef, calls>>
    /\ UNCHANGED notHookVars

SetPrompt ==
    /\ ui.view = "upload"
    /\ ~ui.isLoading
    /\ ~AbortPending
    /\ \E p \in BOOLEAN : ui' = [ui EXCEPT !.prompt = p]
    /\ UNCHANGED <<abortRef, calls>>
    /\ UNCHANGED notHookVars

\* generate, up to its await of fetch.  The button is enabled when canSubmit.
Generate(c) ==
    /\ ui.view = "upload"
    /\ ui.file /\ ui.prompt /\ ~ui.isLoading
    /\ ~AbortPending
    /\ calls[c].pc = "idle"
    /\ \A d \in Calls : d < c => calls[d].pc # "idle"
    /\ ui' = [ui EXCEPT !.error = Undefined, !.result = Undefined,
                        !.isLoading = TRUE, !.view = "generating"]
    /\ abortRef' = c
    /\ calls' = [calls EXCEPT ![c].pc = "fetching"]
    /\ UNCHANGED notHookVars

\* finally { setIsLoading(false); abortRef.current = null; }
Finally(c, shown) ==
    /\ ui' = [shown EXCEPT !.isLoading = FALSE]
    /\ abortRef' = 0
    /\ calls' = [calls EXCEPT ![c].pc = "done"]

\* catch (err): not an AbortError.
Caught(message) == [ui EXCEPT !.error = Some(message), !.view = "upload"]

\* fetch resolves: a response that is not ok is read as JSON, an event stream
\* is read chunk by chunk.
FetchResolves(c, response) ==
    /\ calls[c].pc = "fetching"
    /\ ~calls[c].aborted
    /\ calls' = [calls EXCEPT ![c].pc = IF response.ok THEN "reading" ELSE "json",
                              ![c].body = response.body]
    /\ UNCHANGED <<ui, abortRef>>
    /\ UNCHANGED notHookVars

\* fetch rejects, the request not having been aborted.
FetchRejects(c) ==
    /\ calls[c].pc = "fetching"
    /\ ~calls[c].aborted
    /\ Finally(c, Caught(NetworkMessage))
    /\ UNCHANGED notHookVars

\* res.json().catch(() => ({})) resolves, and the error is thrown and caught.
JsonResolves(c) ==
    /\ calls[c].pc = "json"
    /\ ~calls[c].aborted
    /\ Finally(c, Caught(HttpMessage))
    /\ UNCHANGED notHookVars

\* reader.read() resolves with an event.  A complete event sets the result
\* and shows it; the Error thrown for an error event is caught by the catch
\* around JSON.parse, which does nothing.
ReadEvent(c) ==
    /\ calls[c].pc = "reading"
    /\ ~calls[c].aborted
    /\ calls[c].body # <<>>
    /\ LET type == Head(calls[c].body)
       IN  ui' = IF type = "complete"
                 THEN [ui EXCEPT !.result = Some(FinalResult), !.view = "result"]
                 ELSE ui
    /\ calls' = [calls EXCEPT ![c].body = Tail(calls[c].body)]
    /\ UNCHANGED abortRef
    /\ UNCHANGED notHookVars

\* reader.read() resolves with done: the loop breaks.
ReadDone(c) ==
    /\ calls[c].pc = "reading"
    /\ ~calls[c].aborted
    /\ calls[c].body = <<>>
    /\ Finally(c, ui)
    /\ UNCHANGED notHookVars

\* The pending promise settles after abort(): fetch and reader.read() reject
\* with an AbortError, for which the catch returns; the rejection of
\* res.json() is swallowed by its .catch, and the error thrown next is not
\* an AbortError.
AbortSettles(c) ==
    /\ InFlight(c)
    /\ calls[c].aborted
    /\ Finally(c, IF calls[c].pc = "json" THEN Caught(HttpMessage) ELSE ui)
    /\ UNCHANGED notHookVars

\* reset: Cancel in the generating view, Start over in the result view.
Reset ==
    /\ ui.view \in {"generating", "result"}
    /\ ~AbortPending
    /\ calls' = IF abortRef # 0 THEN [calls EXCEPT ![abortRef].aborted = TRUE] ELSE calls
    /\ abortRef' = 0
    /\ ui' = Mounted
    /\ UNCHANGED notHookVars

GenerateAny == \E c \in Calls : Generate(c)

FetchResolvesAny == \E c \in Calls : \E response \in Responses : FetchResolves(c, response)

FetchRejectsAny == \E c \in Calls : FetchRejects(c)

JsonResolvesAny == \E c \in Calls : JsonResolves(c)

ReadEventAny == \E c \in Calls : ReadEvent(c)

ReadDoneAny == \E c \in Calls : ReadDone(c)

AbortSettlesAny == \E c \in Calls : AbortSettles(c)

NextHook ==
    \/ SetFile
    \/ SetPrompt
    \/ GenerateAny
    \/ FetchResolvesAny
    \/ FetchRejectsAny
    \/ JsonResolvesAny
    \/ ReadEventAny
    \/ ReadDoneAny
    \/ AbortSettlesAny
    \/ Reset

SpecHook == InitSdk /\ [][NextHook]_vars

----------------------------------------------------------------------------
(* findSimplePlaceholders (lib/agents/core/slot-analyzer.ts): the regex     *)
(* detection the analyzer falls back to.  A character outside ASCII is      *)
(* written by its code point.                                               *)

MaxContent == 6     \* characters in the analysed text

Ellipsis == "U+2026"

DetectAlphabet == {"[", Ellipsis, "]", "_"}

\* One item of a pattern: a character class, negated or not, once or +.
Lit(c) == [chars |-> {c}, negate |-> FALSE, plus |-> FALSE]

Plus(c) == [chars |-> {c}, negate |-> FALSE, plus |-> TRUE]

NotPlus(c) == [chars |-> {c}, negate |-> TRUE, plus |-> TRUE]

\* A letter under the i flag.
AnyCase(upper, lower) == [chars |-> {upper, lower}, negate |-> FALSE, plus |-> FALSE]

patterns ==
    << <<Lit("["), Lit(Ellipsis), Lit("]")>>,
       <<Lit("["), Lit("."), Lit("."), Lit("."), Lit("]")>>,
       <<Lit("["), Lit("_"), Lit("_"), Plus("_"), Lit("]")>>,
       <<Lit("{"), Lit("{"), NotPlus("}"), Lit("}"), Lit("}")>>,
       <<Lit("_"), Lit("_"), Plus("_")>>,
       <<Lit("["), AnyCase("I", "i"), AnyCase("N", "n"), AnyCase("S", "s"),
         AnyCase("E", "e"), AnyCase("R", "r"), AnyCase("T", "t"),
         NotPlus("]"), Lit("]")>>,
       <<Lit("["), AnyCase("U+0110", "U+0111"), AnyCase("I", "i"),
         AnyCase("U+1EC0", "U+1EC1"), AnyCase("N", "n"),
         NotPlus("]"), Lit("]")>> >>

Max(S) == CHOOSE x \in S : \A y \in S : x >= y

\* The character at offset p of s is one the item accepts.
Accepts(item, s, p) == p < Len(s) /\ ((s[p + 1] \in item.chars) # item.negate)

\* Where a + item that starts at pos stops: it takes every character it can.
RunEnd(item, s, pos) ==
    Max({q \in pos..Len(s) : \A p \in pos..(q - 1) : Accepts(item, s, p)})

\* The end of the match of the items at pos, or -1.  In each of the patterns
\* the item after a + accepts no character the + accepts, so giving
\* characters back never finds a match that taking them all has missed.
RECURSIVE MatchItems(_, _, _)
MatchItems(items, s, pos) ==
    IF items = <<>> THEN pos
    ELSE IF ~Accepts(Head(items), s, pos) THEN -1
    ELSE MatchItems(Tail(items), s,
                    IF Head(items).plus THEN RunEnd(Head(items), s, pos)
                    ELSE pos + 1)

\* pattern.exec(content) of a g pattern whose lastIndex is given: the first
\* match at or after it, or null.
exec(pattern, content, lastIndex) ==
    LET found == {i \in lastIndex..(Len(content) - 1) :
                      MatchItems(pattern, content, i) # -1}
    IN  IF found = {} THEN Undefined
        ELSE Some([index |-> Min(found),
                   end |-> MatchItems(pattern, content, Min(found))])

\* while ((match = pattern.exec(content)) !== null) { ... }; a slot keeps the
\* match.index it was found at.
RECURSIVE ExecLoop(_, _, _, _)
ExecLoop(pattern, content, lastIndex, found) ==
    LET result == exec(pattern, content, lastIndex)
        match == CHOOSE m \in result : TRUE
    IN  IF result = Undefined THEN found
        ELSE ExecLoop(pattern, content, match.end,
                 IF match.index \in found.seen THEN found
                 ELSE [slots |-> Append(found.slots,
                                   [id |-> Len(found.slots) + 1,
                                    originalText |->
                                        SubSeq(content, match.index + 1, match.end),
                                    index |-> match.index]),
                       seen |-> found.seen \cup {match.index}])

\* for (const pattern of patterns)
RECURSIVE ForPatterns(_, _, _)
ForPatterns(ps, content, found) ==
    IF ps = <<>> THEN found
    ELSE ForPatterns(Tail(ps), content, ExecLoop(Head(ps), content, 0, found))

findSimplePlaceholders(content) ==
    ForPatterns(patterns, content, [slots |-> <<>>, seen |-> {}]).slots

Detect ==
    /\ ~detection.called
    /\ detection' = [detection EXCEPT !.called = TRUE,
                                      !.slots = findSimplePlaceholders(detection.content)]
    /\ UNCHANGED <<zip, contentVars, engineVars, pc, workflowVars, rebuildVars,
                   mapVars, sdkVars, hookVars, route>>

InitDetect ==
    /\ zip = EmptyPackage
    /\ json = <<>>
    /\ textNodes = <<>>
    /\ xmlString = <<>>
    /\ slots = <<>>
    /\ queue = <<>>
    /\ searchCursor = 0
    /\ replacementCount = 0
    /\ outcomes = <<>>
    /\ pc = "sdk"
    /\ analysis = <<>>
    /\ fillResult = <<>>
    /\ output = NoOutput
    /\ references = {}
    /\ relValidation = NoValidation
    /\ replacements = <<>>
    /\ count = 0
    /\ globals = ModuleLoaded
    /\ runs = [i \in Instances |-> NotConstructed]
    /\ route = RouteIdle
    /\ HookIdle
    /\ \E content \in SeqsUpTo(DetectAlphabet, MaxContent) :
           detection = [NoDetection EXCEPT !.content = content]

NextDetect == Detect

SpecDetect == InitDetect /\ [][NextDetect]_vars

----------------------------------------------------------------------------
(* The template-filler route (app/api/agents/template-filler/route.ts): the *)
(* ReadableStream of an accepted request, whose start() runs the SDK.  The  *)
(* client may cancel the stream whenever the handler is suspended.          *)

RouteLeaves == 2    \* text leaves in the uploaded document
MaxThoughts == 1    \* events the agents emit through onProgress in one request
MaxRequests == 2    \* slots in one request's analysis

RouteDocuments == [1..RouteLeaves -> Strs(RunLeafLen)]

\* The onProgress of the route, given to new DocFill.
RouteOnProgress == "cb1"

RouteOptions ==
    [apiKey |-> Undefined, model |-> Undefined, onProgress |-> Some(RouteOnProgress),
     maxRetries |-> Undefined, maxOutputTokens |-> Undefined]

\* The input of df.fill: the trimmed prompt, which the route has found not
\* empty.
RouteInputs == PlainInputs

Terminal == {"complete", "error"}

\* controller.enqueue and controller.close throw a TypeError on a stream
\* that is no longer readable.
Throws(stream) == stream.state # "readable"

Enqueue(stream, type) == [stream EXCEPT !.events = Append(@, type)]

\* onProgress(event): try { controller.enqueue(...) } catch { }
onProgress(stream, type) == IF Throws(stream) THEN stream ELSE Enqueue(stream, type)

\* CatchPath, were the stream closed without the error event.
CatchPathWithoutEvent(r) ==
    IF Throws(r.stream)
    THEN [r EXCEPT !.handler = "threw"]
    ELSE [r EXCEPT !.handler = "closed", !.stream.state = "closed"]

\* The catch of start(): the error event is enqueued in a try of its own,
\* controller.close() is not.
CatchPath(r) ==
    IF Throws(r.stream)
    THEN [r EXCEPT !.handler = "threw"]
    ELSE [r EXCEPT !.handler = "closed",
                   !.stream = [Enqueue(r.stream, "error") EXCEPT !.state = "closed"]]

\* fill() has resolved: the complete event is enqueued and the stream closed;
\* an enqueue that throws is caught by the catch of start().
Complete(r) ==
    IF Throws(r.stream)
    THEN CatchPath(r)
    ELSE [r EXCEPT !.handler = "closed",
                   !.stream = [Enqueue(r.stream, "complete") EXCEPT !.state = "closed"]]

\* POST with a DOCX file and a prompt: the stream is made and start() runs to
\* its first await: the start event, new DocFill({onProgress}), df.fill up
\* to the loading of the package.  The file may not be a package.
Post ==
    /\ route.handler = "idle"
    /\ runs[1].pc = "new"
    /\ \E buffer \in RouteDocuments : \E input \in RouteInputs : \E valid \in BOOLEAN :
          /\ runs' = [runs EXCEPT
                         ![1].pc = "extracting",
                         ![1].options = RouteOptions,
                         ![1].input = input,
                         ![1].fileBuffer = buffer,
                         ![1].passed =
                             [onProgress |-> OrFunction(input.onProgress,
                                                        RouteOptions.onProgress),
                              model |-> OrString(input.model, RouteOptions.model),
                              maxRetries |-> OrNumber(input.maxRetries,
                                                      RouteOptions.maxRetries),
                              maxOutputTokens |-> OrNumber(input.maxOutputTokens,
                                                           RouteOptions.maxOutputTokens)]]
          /\ route' = [route EXCEPT
                          !.handler = "running",
                          !.stream = Enqueue(route.stream, "start"),
                          !.valid = valid]
    /\ UNCHANGED <<zip, contentVars, engineVars, pc, workflowVars, rebuildVars, mapVars,
                   clientVars, globals>>

\* The client goes away: the stream is cancelled.
ClientCancel ==
    /\ route.handler = "running"
    /\ route.stream.state = "readable"
    /\ route' = [route EXCEPT !.stream.state = "cancelled"]
    /\ UNCHANGED <<zip, contentVars, engineVars, pc, workflowVars, rebuildVars, mapVars,
                   sdkVars, clientVars>>

\* extractDocxContent resolves: the first phase event.
RouteExtract ==
    /\ route.handler = "running"
    /\ route.valid
    /\ ExtractRun(1)
    /\ route' = [route EXCEPT !.stream = onProgress(route.stream, "phase")]

\* extractDocxContent rejects: the workflow rethrows, fill() rejects and
\* start() catches.
RouteExtractFails ==
    /\ route.handler = "running"
    /\ ~route.valid
    /\ runs[1].pc = "extracting"
    /\ runs' = [runs EXCEPT ![1].pc = "failed"]
    /\ route' = CatchPath(route)
    /\ UNCHANGED <<zip, contentVars, engineVars, pc, workflowVars, rebuildVars, mapVars,
                   clientVars, globals>>

\* An agent reports a thought while its request is out.
RouteThought ==
    /\ route.handler = "running"
    /\ runs[1].pc \in {"analyzing", "filling"}
    /\ route.thoughts < MaxThoughts
    /\ route' = [route EXCEPT !.stream = onProgress(route.stream, "thought"),
                              !.thoughts = @ + 1]
    /\ UNCHANGED <<zip, contentVars, engineVars, pc, workflowVars, rebuildVars, mapVars,
                   sdkVars, clientVars>>

\* The analysis has slots: slot_detected, the second phase event, and the
\* filler is called.
RouteAnalyze ==
    /\ route.handler = "running"
    /\ AnalyzeRun(1)
    /\ route' = [route EXCEPT
                    !.stream = onProgress(onProgress(route.stream, "slot_detected"),
                                          "phase")]

\* The analysis has no slot: slot_detected, and the workflow returns the
\* file as it came.
RouteNoSlots ==
    /\ route.handler = "running"
    /\ runs[1].pc = "analyzing"
    /\ runs' = [runs EXCEPT ![1].pc = "done"]
    /\ route' = Complete([route EXCEPT
                             !.stream = onProgress(route.stream, "slot_detected")])
    /\ UNCHANGED <<zip, contentVars, engineVars, pc, workflowVars, rebuildVars, mapVars,
                   clientVars, globals>>

\* The fill result has come back: slot_filling, the replacements, one for
\* each slot of the analysis, the third phase event, and rebuildDocx is called.
RouteFill ==
    /\ route.handler = "running"
    /\ \E n \in 1..MaxRequests : \E requests \in [1..n -> RunRequests] :
          /\ FillRun(1, requests)
          /\ route' = [route EXCEPT
                          !.stream = onProgress(onProgress(route.stream, "slot_filling"),
                                                "phase"),
                          !.requests = requests]

\* rebuildDocx resolves and with it fill().
RouteRebuild ==
    /\ route.handler = "running"
    /\ RebuildRun(1)
    /\ route' = Complete(route)

NextRoute ==
    \/ Post
    \/ ClientCancel
    \/ RouteExtract
    \/ RouteExtractFails
    \/ RouteThought
    \/ RouteAnalyze
    \/ RouteNoSlots
    \/ RouteFill
    \/ RouteRebuild

SpecRoute == InitSdk /\ [][NextRoute]_vars

----------------------------------------------------------------------------
(* What the properties below speak about, stated without the engine's own *)
(* operators                                                               *)

RECURSIVE Concat(_)
Concat(leaves) ==
    IF leaves = <<>> THEN <<>> ELSE Head(leaves) \o Concat(Tail(leaves))

\* pat occupies [i, i + Len(pat)) of text.
OccursAt(text, pat, i) ==
    /\ i >= 0
    /\ i + Len(pat) <= Len(text)
    /\ SubSeq(text, i + 1, i + Len(pat)) = pat

OccursFrom(text, pat, from) == \E i \in from..Len(text) : OccursAt(text, pat, i)

FirstFrom(text, pat, from) == Min({i \in from..Len(text) : OccursAt(text, pat, i)})

\* The requests occur in text one after the other, each at or after the end
\* of the one before.
RECURSIVE InDocumentOrder(_, _, _)
InDocumentOrder(text, from, list) ==
    \/ list = <<>>
    \/ /\ OccursFrom(text, Head(list).originalText, from)
       /\ InDocumentOrder(text,
              FirstFrom(text, Head(list).originalText, from)
                  + Len(Head(list).originalText),
              Tail(list))

\* text from offset `from` on, with each request's occurrence replaced by its
\* filledValue.
RECURSIVE Filled(_, _, _)
Filled(text, from, list) ==
    IF list = <<>> THEN SubSeq(text, from + 1, Len(text))
    ELSE LET at == FirstFrom(text, Head(list).originalText, from)
         IN  SubSeq(text, from + 1, at)
             \o Head(list).filledValue
             \o Filled(text, at + Len(Head(list).originalText), Tail(list))

Changing(list) == {i \in DOMAIN list : list[i].originalText # list[i].filledValue}

Took(branch) == {i \in DOMAIN outcomes : outcomes[i].branch = branch}

\* Offset in the virtual text at which leaf i starts.
LeafStart(leaves, i) == Len(Concat(SubSeq(leaves, 1, i - 1)))

\* The leaf that holds the character at offset k of the virtual text.
LeafOf(leaves, k) ==
    CHOOSE i \in DOMAIN leaves :
        LeafStart(leaves, i) <= k /\ k < LeafStart(leaves, i) + Len(leaves[i])

Returned == pc = "returned"

AtHead == pc = "loop" /\ queue # <<>>

----------------------------------------------------------------------------
(* Properties of findAndReplaceSequential *)

\* C1: position alignment.  When the requests have non-empty originalTexts
\* that occur in the loaded text one after the other, every request is matched
\* and the final virtual text is the loaded text with each occurrence replaced
\* by its filledValue, the count being the number of requests that change text.
C1_PositionAlignment ==
    (/\ Returned
     /\ \A i \in DOMAIN slots : slots[i].originalText # <<>>
     /\ InDocumentOrder(Concat(xmlString), 0, slots))
    => /\ Took("not-found") = {}
       /\ Concat(textNodes) = Filled(Concat(xmlString), 0, slots)
       /\ replacementCount = Cardinality(Changing(slots))

\* C2: order preservation.  Two requests with the same non-empty originalText,
\* which occurs twice in the loaded text: the first occurrence receives the
\* first filledValue and the second occurrence the second.
C2_OrderPreservation ==
    (/\ Returned
     /\ Len(slots) = 2
     /\ slots[1].originalText = slots[2].originalText
     /\ slots[1].originalText # <<>>
     /\ InDocumentOrder(Concat(xmlString), 0, slots))
    => Concat(textNodes) = Filled(Concat(xmlString), 0, slots)

\* C4: the number returned is the number of requests whose iteration changed
\* the text of some leaf.
C4_CountIsChanges ==
    Returned => replacementCount =
                    Cardinality({i \in DOMAIN outcomes : outcomes[i].modified})

\* The head request, the text it is searched in, and where it is found.
HeadText == Head(queue).originalText

HeadValue == Head(queue).filledValue

HeadFound == OccursFrom(Concat(textNodes), HeadText, searchCursor)

HeadAt == FirstFrom(Concat(textNodes), HeadText, searchCursor)

\* The head request is found, changes text, and its span [HeadAt, HeadAt +
\* Len(HeadText)) begins in one leaf and ends in a later one.
SplitCase ==
    /\ AtHead
    /\ HeadText # <<>>
    /\ HeadText # HeadValue
    /\ HeadFound
    /\ LeafOf(textNodes, HeadAt) < LeafOf(textNodes, HeadAt + Len(HeadText) - 1)

\* C3: split-run replacement.  The start leaf becomes (its text before the
\* match) + filledValue, the end leaf becomes its text after the match, every
\* leaf strictly between them becomes empty and every other leaf is unchanged.
C3_SplitRun ==
    [][SplitCase =>
        LET s == LeafOf(textNodes, HeadAt)
            e == LeafOf(textNodes, HeadAt + Len(HeadText) - 1)
        IN  textNodes' =
                [i \in DOMAIN textNodes |->
                    IF i = s
                    THEN SubSeq(textNodes[s], 1, HeadAt - LeafStart(textNodes, s))
                         \o HeadValue
                    ELSE IF i = e
                    THEN SubSeq(textNodes[e],
                                HeadAt + Len(HeadText) - LeafStart(textNodes, e) + 1,
                                Len(textNodes[e]))
                    ELSE IF s < i /\ i < e THEN <<>>
                    ELSE textNodes[i]]]_vars

\* A placeholder fragmented across three non-empty leaves has been collapsed:
\* the first holds the filled value, the other two are empty.
C3_Witness ==
    /\ Returned
    /\ Len(xmlString) = 3
    /\ \A i \in 1..3 : xmlString[i] # <<>>
    /\ Concat(xmlString) = slots[1].originalText
    /\ Took("replaced") = {1}
    /\ outcomes[1].startNode = 1 /\ outcomes[1].endNode = 3
    /\ textNodes = <<slots[1].filledValue, <<>>, <<>>>>
    /\ slots[1].filledValue # <<>>

\* C5: not-found safety.  When the head request's originalText does not occur
\* in the virtual text at or after searchCursor, the iteration changes no
\* leaf, leaves cursor and counter as they are, pops that request only and the
\* loop goes on.
C5_NotFoundSafety ==
    [][(AtHead /\ ~HeadFound) =>
        /\ textNodes' = textNodes
        /\ json' = json
        /\ searchCursor' = searchCursor
        /\ replacementCount' = replacementCount
        /\ queue' = Tail(queue)
        /\ pc' = "loop"]_vars

\* The head request is found and asks for its own text.
NoOpCase == AtHead /\ HeadFound /\ HeadText = HeadValue

C7_Termination ==
    /\ [][AtHead => (Len(queue') = Len(queue) - 1 /\ pc' = "loop")]_vars
    /\ [](pc \in {"loop", "returned"} => Len(outcomes) + Len(queue) = Len(slots))
    /\ [](Returned => (queue = <<>> /\ Len(outcomes) = Len(slots)))

\* A call with two requests that took different branches has returned.
C7_Witness ==
    /\ Returned
    /\ Len(slots) = 2
    /\ outcomes[1].branch # outcomes[2].branch

\* C9: a document with no text leaf.  Every request takes the not-found
\* branch, nothing is mutated and the count stays 0.
C9_ZeroLeaves ==
    (xmlString = <<>> /\ pc \in {"loop", "returned"})
    => /\ Took("replaced") = {}
       /\ Took("no-op") = {}
       /\ textNodes = <<>>
       /\ json = <<>>
       /\ replacementCount = 0

----------------------------------------------------------------------------
(* Properties of templateFillerWorkflow *)

\* C8: per-run counts.  The result tells the caller how many requests changed
\* text, how many were no-ops and how many were not found: the counts of the
\* branches the replacement loop took (the not-found count being what is
\* left of totalSlots).
C8_PerRunCounts ==
    (pc = "done" /\ output.metadata.totalSlots > 0)
    => /\ output.metadata.filledSlots = Cardinality(Took("replaced"))
       /\ output.metadata.skippedSlots = Cardinality(Took("no-op"))
       /\ output.metadata.totalSlots - output.metadata.filledSlots
              - output.metadata.skippedSlots = Cardinality(Took("not-found"))

\* C10: a package without word/document.xml.  Extraction fails before any
\* tree or handle is built, nothing later runs, and the caller gets the error
\* and no document bytes.
C10_MissingDocument ==
    DocumentPath \notin DOMAIN zip
    => /\ pc \in {"start", "failed"}
       /\ json = <<>> /\ textNodes = <<>> /\ xmlString = <<>>
       /\ analysis = <<>> /\ fillResult = <<>> /\ outcomes = <<>>
       /\ pc = "start" => output = NoOutput
       /\ pc = "failed" => output = [kind |-> "error", message |-> MissingDocument]

\* The workflow has failed on a package without word/document.xml.
C10_Witness ==
    /\ DocumentPath \notin DOMAIN zip
    /\ pc = "failed"
    /\ output.kind = "error"

----------------------------------------------------------------------------
(* Properties of rebuildDocx *)

\* The ids the markup refers to that the relationship table does not define.
Orphans == {r \in references : r \notin zip[RelsPath].ids}

\* C11: relationship validation never aborts the rebuild.  Whatever
\* validateRelationships meets (orphaned ids, no table, a table it cannot
\* parse), rebuildDocx goes from the returned replacement to the rebuilt
\* package, whose word/document.xml is the serialized tree, and the outcome is
\* only recorded: valid with a warning when there is no table, invalid with
\* one error when validation itself failed, and otherwise valid exactly when
\* no id is orphaned, with one error per orphaned id.
C11_ValidationNeverAborts ==
    /\ [][pc = "returned" => (pc' = "rebuilt" /\ zip'[DocumentPath] = json)]_vars
    /\ [](pc # "failed")
    /\ [](pc = "rebuilt" =>
            /\ zip[DocumentPath] = json
            /\ IF RelsPath \notin DOMAIN zip
               THEN /\ relValidation.isValid
                    /\ relValidation.errors = {}
                    /\ relValidation.warnings # {}
               ELSE IF ~zip[RelsPath].parses
               THEN /\ ~relValidation.isValid
                    /\ Cardinality(relValidation.errors) = 1
                    /\ relValidation.warnings = {}
               ELSE /\ relValidation.isValid <=> Orphans = {}
                    /\ {e.relId : e \in relValidation.errors} = Orphans
                    /\ Cardinality(relValidation.errors) = Cardinality(Orphans)
                    /\ relValidation.warnings = {})

\* A document that refers to an id its table does not define has been edited
\* and rebuilt, the orphan recorded.
C11_Witness ==
    /\ pc = "rebuilt"
    /\ RelsPath \in DOMAIN zip
    /\ zip[RelsPath].parses
    /\ Orphans # {}
    /\ ~relValidation.isValid
    /\ zip[DocumentPath] = json
    /\ json # xmlString

\* C12: only word/document.xml is written.  No step from extraction to the
\* rebuild adds or removes a package entry or changes the content of an entry
\* other than word/document.xml.
C12_OnlyDocumentWritten ==
    [][/\ DOMAIN zip' = DOMAIN zip
       /\ \A name \in DOMAIN zip \ {DocumentPath} : zip'[name] = zip[name]]_vars

\* A package with a relationship table and a media part has been rebuilt with
\* a changed word/document.xml.
C12_Witness ==
    /\ pc = "rebuilt"
    /\ RelsPath \in DOMAIN zip
    /\ MediaPath \in DOMAIN zip
    /\ zip[DocumentPath] # xmlString
    /\ relValidation # NoValidation

----------------------------------------------------------------------------
(* Properties of the SDK *)

\* A fill() run that has API requests still to make.
AwaitingRequest(i) == runs[i].pc \in {"extracting", "analyzing"}

\* C13: concurrent runs share no state.  A step of one run changes nothing of
\* another run (its package, tree, handles, settings), and no step that leaves
\* a run waiting with requests still to make changes the process-wide state
\* that run reads when it makes them.
C13_RunsShareNoState ==
    [][\A i \in Instances :
          /\ (\E j \in Instances : j # i /\ runs'[j] # runs[j]) => runs'[i] = runs[i]
          /\ (AwaitingRequest(i) /\ runs'[i] = runs[i]) => globals' = globals]_vars

\* The settings fill() handed to templateFillerWorkflow.
Overridable == {"onProgress", "model", "maxRetries", "maxOutputTokens"}

\* C14: fill() settings override the constructor's.  For each of onProgress,
\* model, maxRetries and maxOutputTokens, the value passed to
\* templateFillerWorkflow is the one given in the fill() call whenever the call
\* gives one, and the constructor's otherwise.
C14_FillOverrides ==
    \A i \in Instances :
        runs[i].pc = "extracting" =>
            \A f \in Overridable :
                runs[i].passed[f] = IF runs[i].input[f] # Undefined
                                    THEN runs[i].input[f]
                                    ELSE runs[i].options[f]

----------------------------------------------------------------------------
(* Further properties of findAndReplaceSequential *)

\* The head request is matched by the search, and asks for another text.
ReplaceCase == AtHead /\ matchIndex # -1 /\ HeadText # HeadValue

\* The requests the loop matched, by their position in outcomes.
Matched == {i \in DOMAIN outcomes : outcomes[i].branch # "not-found"}

\* C15: a replacement changes only the matched span.  When the head request
\* is matched at [matchIndex, matchEnd) of the virtual text V and asks for
\* another text, the virtual text after the iteration is V before matchIndex,
\* then filledValue, then V from matchEnd on.
C15_OnlyMatchedSpan ==
    [][ReplaceCase =>
          Concat(textNodes') =
              SubSeq(Concat(textNodes), 1, matchIndex)
              \o HeadValue
              \o SubSeq(Concat(textNodes), matchEnd + 1, Len(Concat(textNodes)))]_vars

\* C16: the cursor only moves forward.  searchCursor never decreases during a
\* call, every match is found at or after the cursor it was searched from, and
\* the match offsets of successive matched requests never decrease.
C16_CursorMonotone ==
    /\ [][pc = "loop" => searchCursor' >= searchCursor]_vars
    /\ [](\A i \in Matched : outcomes[i].matchIndex >= outcomes[i].searchCursor)
    /\ [](\A i, j \in Matched :
            i < j => outcomes[i].matchIndex <= outcomes[j].matchIndex)

\* C17: the cursor advances by the original length.  After a matched request
\* that asks for another text the cursor is matchIndex + length(originalText),
\* whatever the length of filledValue, and it is from that offset that the next
\* request is searched in the rebuilt text.
C17_CursorByOriginalLength ==
    /\ [][ReplaceCase => searchCursor' = matchIndex + Len(HeadText)]_vars
    /\ [](\A i \in DOMAIN outcomes :
            (i > 1 /\ outcomes[i - 1].branch = "replaced")
            => outcomes[i].searchCursor =
                   outcomes[i - 1].matchIndex + Len(outcomes[i - 1].originalText))

\* A request was replaced by a value of another length, and the next request
\* was searched from the end of the original span and replaced too.
C17_Witness ==
    /\ Returned
    /\ Len(outcomes) = 2
    /\ outcomes[1].branch = "replaced"
    /\ outcomes[1].modified
    /\ Len(outcomes[1].filledValue) # Len(outcomes[1].originalText)
    /\ outcomes[2].branch = "replaced"
    /\ outcomes[2].modified
    /\ outcomes[2].searchCursor = outcomes[1].matchIndex + Len(outcomes[1].originalText)
    /\ outcomes[2].searchCursor > 0

\* C19: the handle list is fixed.  No step of a call changes the number of
\* handles (so none is added, removed or moved); the node map has one entry
\* per handle, in index order, and a leaf whose text is empty has a zero-width
\* entry.
C19_HandleListFixed ==
    /\ [][DOMAIN textNodes' = DOMAIN textNodes /\ DOMAIN json' = DOMAIN json]_vars
    /\ [](Len(textNodes) = Len(xmlString) /\ Len(json) = Len(xmlString))
    /\ [](/\ Len(NodeMap) = Len(textNodes)
          /\ \A i \in DOMAIN NodeMap :
                /\ NodeMap[i].nodeIndex = i
                /\ textNodes[i] = <<>> => NodeMap[i].start = NodeMap[i].end)

\* A leaf was emptied by a replacement and is still in the list, a zero-width
\* span before a leaf that follows it, while a request is still to be searched.
C19_Witness ==
    /\ AtHead
    /\ Len(textNodes) = 2
    /\ xmlString[1] # <<>>
    /\ textNodes[1] = <<>>
    /\ textNodes[2] # <<>>
    /\ NodeMap[1].start = NodeMap[1].end
    /\ NodeMap[2].start = 0
    /\ NodeMap[2].nodeIndex = 2

C18_HandleTreeSync ==
    /\ Len(json) = Len(textNodes)
    /\ \A i \in DOMAIN textNodes : textNodes[i] = json[i]

\* findAndReplace has returned after changing a leaf, and the tree holds the
\* new text.
C18_Witness ==
    /\ pc = "map-returned"
    /\ count > 0
    /\ textNodes # xmlString
    /\ json = textNodes

----------------------------------------------------------------------------
(* Further properties of templateFillerWorkflow *)

\* findAndReplaceSequential has been called by the workflow.
Applied == pc \in {"loop", "returned", "rebuilt"} \/ (pc = "done" /\ analysis # <<>>)

\* The filler results that carry the id of detected slot i.
ResultsFor(i) == {k \in DOMAIN fillResult : fillResult[k].id = analysis[i].id}

DistinctIds == \A i, j \in DOMAIN analysis : analysis[i].id = analysis[j].id => i = j

\* C21: the replacement list follows the detection.  The list given to
\* findAndReplaceSequential has one request per detected slot, at the slot's
\* position in analysis.slots; the request of a slot without a filler result
\* is (originalText, originalText), any other is the pair of a filler result
\* that carries the slot's id (and, the ids being distinct, the slot's own
\* originalText); a result with any other id gives no request.
C21_OrderedReplacements ==
    Applied =>
        /\ Len(slots) = Len(analysis)
        /\ \A i \in DOMAIN analysis :
              /\ ResultsFor(i) = {} =>
                    slots[i] = [originalText |-> analysis[i].originalText,
                                filledValue |-> analysis[i].originalText]
              /\ ResultsFor(i) # {} =>
                    \E k \in ResultsFor(i) :
                        slots[i] = [originalText |-> fillResult[k].originalText,
                                    filledValue |-> fillResult[k].filledValue]
              /\ DistinctIds => slots[i].originalText = analysis[i].originalText

\* The filler has returned its two results in the reverse of the detection
\* order, with different values, and the list is in detection order.
C21_Witness ==
    /\ Applied
    /\ Len(analysis) = 2
    /\ DistinctIds
    /\ analysis[1].originalText # analysis[2].originalText
    /\ Len(fillResult) = 2
    /\ fillResult[1].id = analysis[2].id
    /\ fillResult[2].id = analysis[1].id
    /\ fillResult[1].filledValue # fillResult[2].filledValue
    /\ slots[1].filledValue = fillResult[2].filledValue
    /\ slots[2].filledValue = fillResult[1].filledValue

\* The filler fell back: only its fallback gives an entry a confidence of 0
\* (a finalized entry has slot.confidence || 0.5).
FellBack == fillResult # <<>> /\ \A k \in DOMAIN fillResult : fillResult[k].confidence = 0

\* C29: the filler never fails the workflow.  Once the analysis has found
\* slots the workflow goes on to apply a fill result, never to a failure.  When
\* the filler fell back its result has one entry per detected slot, in
\* detection order, skipped, of confidence 0, its value the slot's original
\* text; applying it changes no leaf and no tree value and counts 0
\* replacements, and the bytes returned carry the text that was extracted.
C29_FillerFallback ==
    /\ [][pc = "analyzed" => pc' \in {"filled", "done"}]_vars
    /\ [](FellBack
            => fillResult = [i \in DOMAIN analysis |->
                                [id |-> analysis[i].id,
                                 originalText |-> analysis[i].originalText,
                                 filledValue |-> analysis[i].originalText,
                                 source |-> "skipped",
                                 confidence |-> 0]])
    /\ []((Applied /\ FellBack)
            => /\ textNodes = xmlString
               /\ json = xmlString
               /\ replacementCount = 0
               /\ Took("replaced") = {})
    /\ []((pc = "done" /\ FellBack)
            => output.filledDocxBuffer[DocumentPath] = xmlString)

\* The filler fell back on two detected slots, the first of which is text of
\* the document, and the workflow has returned the text unchanged.
C29_Witness ==
    /\ pc = "done"
    /\ Len(analysis) = 2
    /\ FellBack
    /\ Len(outcomes) = 2
    /\ outcomes[1].branch = "no-op"
    /\ analysis[1].originalText # <<>>
    /\ output.filledDocxBuffer[DocumentPath] = xmlString
    /\ output.metadata.skippedSlots = 2

\* The detected slots whose request changed text in the document.
ChangedSlots == {i \in DOMAIN outcomes : outcomes[i].modified}

\* C30: the metadata of a result.  filledSlots and skippedSlots add up to
\* totalSlots, filledSlots is the number of placeholders whose text was changed
\* (the count findAndReplaceSequential returned), and no slot the filler
\* reported as skipped was changed in the document.
C30_MetadataCounts ==
    (pc = "done" /\ analysis # <<>>)
    => /\ output.metadata.filledSlots + output.metadata.skippedSlots
              = output.metadata.totalSlots
       /\ output.metadata.filledSlots = replacementCount
       /\ output.metadata.filledSlots = Cardinality(ChangedSlots)
       /\ \A i \in ChangedSlots :
              \A k \in ResultsFor(i) : fillResult[k].source # "skipped"

----------------------------------------------------------------------------
(* Properties of findAndReplace *)

\* The while loop of findAndReplace is about to replace an occurrence.
MapFound == pc = "map-loop" /\ replacements # <<>> /\ find # <<>> /\ mapMatchIndex # -1

\* C23: findAndReplace terminates and counts what it replaced.  An iteration
\* of the while loop that finds an occurrence never leaves the text and the
\* entry as it found them (it would be repeated for ever), each unit of count
\* is an occurrence that was replaced in some leaf, and an entry whose find
\* string is empty is passed over with leaves, tree and count untouched.
C23_FindAndReplace ==
    /\ [][MapFound => (textNodes' # textNodes \/ replacements' # replacements)]_vars
    /\ [][count' # count => (count' = count + 1 /\ MapFound /\ textNodes' # textNodes)]_vars
    /\ [][(pc = "map-loop" /\ replacements # <<>> /\ find = <<>>)
            => (replacements' = Tail(replacements)
                /\ UNCHANGED <<json, textNodes, count, pc>>)]_vars

----------------------------------------------------------------------------
(* Properties of getPlainText *)

\* C25: the analysed text and the searched text agree.  Every substring of
\* the plain text of a document occurs in the virtual text built from the same
\* leaves, and a request whose originalText was copied from the plain text is
\* found by findAndReplaceSequential.
C25_PlainTextSearchable ==
    /\ pc = "extracted" =>
          \A p \in Substrings(plainText) : OccursFrom(Concat(textNodes), p, 0)
    /\ \A i \in DOMAIN outcomes : outcomes[i].branch # "not-found"

----------------------------------------------------------------------------
(* Properties of useTemplateFiller *)

\* A call of generate is reading an event of type "error" from the stream.
ReadsError(c) ==
    /\ calls[c].pc = "reading"
    /\ ~calls[c].aborted
    /\ calls[c].body # <<>>
    /\ Head(calls[c].body) = "error"

\* C26: an error event is shown.  When a call of generate reads an event of
\* type "error", the event's message is stored in error and the view returns
\* to "upload"; and when no call is in flight, the view is not "generating".
C26_ErrorEventShown ==
    /\ [][\A c \in Calls :
            (ReadsError(c) /\ calls'[c] # calls[c])
            => (ui'.error = Some(ServerMessage) /\ ui'.view = "upload")]_vars
    /\ []((\A c \in Calls : ~InFlight(c)) => ui.view # "generating")

\* A call of generate is settling after reset has aborted it.
Settling(c) == InFlight(c) /\ calls[c].aborted /\ calls'[c].pc = "done"

\* C27: reset and the runs of generate.  A run in flight that has not been
\* aborted is the one whose controller abortRef holds; reset aborts every run
\* in flight; and an aborted run, when it settles, leaves alone the controller
\* and the isLoading flag of any later run, and view, result and error.
C27_ResetAbortsCurrentRun ==
    /\ [](\A c \in Calls : (InFlight(c) /\ ~calls[c].aborted) => abortRef = c)
    /\ [][(ui.view # "upload" /\ ui' = Mounted)
            => \A c \in Calls : InFlight(c) => calls'[c].aborted]_vars
    /\ [][\A c \in Calls :
            Settling(c)
            => /\ abortRef # 0 => abortRef' = abortRef
               /\ (\E d \in Calls : d # c /\ InFlight(d)) => ui'.isLoading = ui.isLoading
               /\ ui'.view = ui.view
               /\ ui'.result = ui.result
               /\ ui'.error = ui.error]_vars

\* The characters a slot of the detection covers, as offsets of the text.
Covers(slot) == slot.index..(slot.index + Len(slot.originalText) - 1)

\* C24: findSimplePlaceholders returns its slots in document reading order
\* (each slot starts after the one before it), and no two of its slots cover
\* a common character of the analysed text.
C24_DocumentOrder ==
    detection.called =>
        /\ \A i, j \in DOMAIN detection.slots :
               i < j => detection.slots[i].index < detection.slots[j].index
        /\ \A i, j \in DOMAIN detection.slots :
               i # j => Covers(detection.slots[i]) \cap Covers(detection.slots[j]) = {}

\* The tree of the request's document once every replacement the workflow
\* made for it has been applied.
FullyEdited ==
    findAndReplaceSequential(Content(runs[1].fileBuffer, runs[1].fileBuffer),
                             route.requests, 0, 0).content

Events == route.stream.events

\* start() has returned or thrown.
Finished == route.handler \in {"closed", "threw"}

\* The first event is start and no later one is; a terminal event is the
\* last one.
WellOrdered ==
    /\ route.handler # "idle" => Events # <<>>
    /\ \A k \in DOMAIN Events :
          /\ Events[k] = "start" <=> k = 1
          /\ Events[k] \in Terminal => k = Len(Events)

\* The stream has ended with the one terminal event of the workflow's outcome.
Terminated ==
    /\ route.stream.state = "closed"
    /\ Events[Len(Events)] = (IF runs[1].pc = "done" THEN "complete" ELSE "error")

\* The workflow fails only when the file is not a package.
FailsOnItsOwn == runs[1].pc = "failed" => ~route.valid

\* C28 as stated: for every accepted request the stream has start first, then
\* progress events, then exactly one terminal event, complete if the workflow
\* succeeded and error if it threw, and then closes; nothing is enqueued
\* after the terminal event and a progress callback on a closed stream never
\* fails the workflow.
C28_OneTerminalEvent ==
    /\ WellOrdered
    /\ Finished => Terminated
    /\ FailsOnItsOwn

\* C28 amended: start is first, a terminal event is last, and a progress
\* callback never fails the workflow; a request whose stream the client has
\* not cancelled ends with exactly one terminal event, complete if the
\* workflow succeeded and error if it threw, and the stream closed; on a
\* stream the client has cancelled nothing more is enqueued, no terminal
\* event either, and the workflow still runs to its end.
C28_OneTerminalEventUnlessCancelled ==
    /\ [](WellOrdered /\ FailsOnItsOwn)
    /\ [](Finished /\ route.stream.state # "cancelled" => Terminated)
    /\ [](Finished => runs[1].pc \in {"done", "failed"})
    /\ [][route.stream.state = "cancelled" => route'.stream = route.stream]_vars

\* The client cancelled after the first phase event; the workflow went on
\* through detection, filling and rebuild, whose events were dropped, and
\* succeeded; the stream holds no terminal event.
C28_Witness ==
    /\ Finished
    /\ route.stream.state = "cancelled"
    /\ Events = <<"start", "phase">>
    /\ runs[1].pc = "done"
    /\ route.requests # <<>>
====
